---- MODULE Spec2Model ----
(***************************************************************************)
(* Model of the instruction-contract macros of the interpreter             *)
(* (crates/interpreter/src/instructions/macros.rs): gas!, refund!,         *)
(* resize_memory!, pop!/pop_ret!, push!/push_b256!, check_staticcall!,     *)
(* check!, gas_or_fail!, pop_top!, pop_address! and the narrowing macros.  *)
(*                                                                         *)
(* One call frame is modelled.  The state is the part of `Interpreter`     *)
(* the macros read and write: stack, gas, shared_memory, is_static and     *)
(* instruction_result.  Each action is one macro expansion, executed       *)
(* whole.  A macro that fails writes instruction_result and returns from   *)
(* the instruction handler; the run loop then stops the frame, so no       *)
(* macro runs once instruction_result is not Continue.                     *)
(*                                                                         *)
(* Native integer widths are scaled down: usize has UsizeBits bits.  The   *)
(* memory buffer holds only zero bytes here (no macro writes to it), so    *)
(* it is represented by its length.                                        *)
(***************************************************************************)
EXTENDS Integers, Sequences, FiniteSets, TLC

VARIABLES
    stack,               \* $interp.stack: sequence of words, top is the last
    gas,                 \* $interp.gas: [remaining, memory, refunded]
    shared_memory,       \* $interp.shared_memory: [len, memory_limit]
    feature_memory_limit,\* cfg(feature = "memory_limit")
    is_static,           \* $interp.is_static
    instruction_result,  \* $interp.instruction_result, the error signal
    last,                \* the macro expanded by the last step and its arguments
    ret,                 \* the identifiers the last macro bound (x1, x2, ...)
    repeat,              \* the last step expanded the same macro, with the same
                         \* arguments, as the step before it
    returned,            \* the handler has executed a macro's `return`
    unchecked_oob        \* an unchecked stack access has run out of bounds

vars == <<stack, gas, shared_memory, feature_memory_limit, is_static,
          instruction_result, last, ret, repeat, returned,
          unchecked_oob>>

---------------------------------------------------------------------------
(* Bounds of the model. *)

UsizeBits == 7
STACK_LIMIT == 4
MaxRefund == 1
AddressBits == 1

(* Program constants. *)

WORD_SIZE == 32
MEMORY == 3
QUAD_COEFF_DIV == 2

USIZE_MAX == 2^UsizeBits - 1
U64_MAX == 2^(UsizeBits + 1) - 1

(* Inputs the handlers pass to the macros. *)

PushWords == {1, 2}
Costs == {0, 3, 10}
Refunds == {1}
Offsets == {0, 33, USIZE_MAX}
Lens == {0, 1, 32}
GasLimits == {5, 14}
MemoryLimits == {40}
SpecIds == {1, 2}
Capabilities == {1, 2}
OptionalCosts == {<<>>, <<3>>, <<10>>}
LimbValues == {0, USIZE_MAX, USIZE_MAX + 1}

---------------------------------------------------------------------------
(* Helpers of the interpreter crate used by the macros. *)

saturating_add(a, b) == IF a + b > USIZE_MAX THEN USIZE_MAX ELSE a + b

saturating_mul_u64(a, b) == IF a * b > U64_MAX THEN U64_MAX ELSE a * b

saturating_add_u64(a, b) == IF a + b > U64_MAX THEN U64_MAX ELSE a + b

\* Rounds x up to the closest multiple of 32; the addition saturates at
\* usize::MAX ("We are fine with saturating to usize if size is close to MAX").
next_multiple_of_32(x) ==
    LET r == (WORD_SIZE - (x % WORD_SIZE)) % WORD_SIZE
    IN  saturating_add(x, r)

\* Memory expansion cost of num_words words: linear plus quadratic part.
memory_gas(num_words) ==
    saturating_add_u64(saturating_mul_u64(MEMORY, num_words),
                       saturating_mul_u64(num_words, num_words) \div QUAD_COEFF_DIV)

\* Gas::remaining
remaining(g) == g.remaining

\* Gas::record_cost: atomic charge; returns whether it succeeded.
record_cost(g, cost) ==
    IF cost > g.remaining
    THEN [ok |-> FALSE, gas |-> g]
    ELSE [ok |-> TRUE, gas |-> [g EXCEPT !.remaining = @ - cost]]

\* Gas::record_memory: gas_memory is the total memory cost of the new size;
\* only the part above the memory cost already paid is charged.
record_memory(g, gas_memory) ==
    IF gas_memory > g.memory
    THEN IF gas_memory - g.memory > g.remaining
         THEN [ok |-> FALSE, gas |-> g]
         ELSE [ok |-> TRUE,
               gas |-> [g EXCEPT !.remaining = @ - (gas_memory - g.memory),
                                 !.memory = gas_memory]]
    ELSE [ok |-> TRUE, gas |-> g]

\* Gas::record_refund
record_refund(g, refund_amount) == [g EXCEPT !.refunded = @ + refund_amount]

\* SharedMemory::limit_reached
limit_reached(m, new_size) == new_size > m.memory_limit

\* SharedMemory::resize: grow the buffer to new_size, zero-filled.
resize(m, new_size) == [m EXCEPT !.len = new_size]

\* Stack::push: rejected, with no mutation, when the stack is full.
push_word(s, value) ==
    IF Len(s) = STACK_LIMIT
    THEN [ok |-> FALSE, err |-> "StackOverflow", stack |-> s]
    ELSE [ok |-> TRUE, err |-> "Continue", stack |-> Append(s, value)]

\* Stack::push_b256: the 32 bytes are read as a big-endian word, then pushed.
\* A B256 is represented by the word it denotes.
push_b256_word(s, value) == push_word(s, value)

\* Stack::pop_unsafe and its multi-word forms: no bounds check; the words
\* come back most-recently-pushed first.
top_words(s, n) == [i \in 1..n |-> s[Len(s) + 1 - i]]

pop_unsafe(s) == [vals |-> top_words(s, 1), stack |-> SubSeq(s, 1, Len(s) - 1)]

pop2_unsafe(s) == [vals |-> top_words(s, 2), stack |-> SubSeq(s, 1, Len(s) - 2)]

pop3_unsafe(s) == [vals |-> top_words(s, 3), stack |-> SubSeq(s, 1, Len(s) - 3)]

pop4_unsafe(s) == [vals |-> top_words(s, 4), stack |-> SubSeq(s, 1, Len(s) - 4)]

\* Stack::top_unsafe, pop_top_unsafe, pop2_top_unsafe ("Pops U256 values
\* from the stack, and returns a reference to the top of the stack"): the
\* words above the new top are removed, the last value is the word the
\* reference points to, which stays on the stack.
top_unsafe(s) == [vals |-> top_words(s, 1), stack |-> s]

pop_top_unsafe(s) == [vals |-> top_words(s, 2), stack |-> SubSeq(s, 1, Len(s) - 1)]

pop2_top_unsafe(s) == [vals |-> top_words(s, 3), stack |-> SubSeq(s, 1, Len(s) - 2)]

\* Address::from_word(B256::from(word)): the low-order bytes of the word.
from_word(word) == word % 2^AddressBits

\* Spec::enabled: the capability is present at or before the active version.
enabled(active, min) == active >= min

\* U256::as_limbs: four u64 limbs, least significant first; x[i] is limbs[i + 1].
as_limbs(v) == v

\* usize::try_from(u64)
usize_try_from(x) == [ok |-> x <= USIZE_MAX, val |-> x]

\* An unchecked access that touches n words of s is out of bounds when s is
\* shorter: the *_unsafe functions of Stack skip the test.
out_of_bounds(s, n) == Len(s) < n

\* What an out-of-bounds unchecked access may leave behind: the length
\* wraps or not, the words read are whatever lies there.
undefined_access ==
    /\ unchecked_oob' = TRUE
    /\ stack' \in {<<>>, stack}
    /\ ret' \in {<<>>, <<0>>}

\* A macro is expanded at a point of a handler that has not returned; the run
\* loop dispatches the next handler only while no error is signalled.
Running == ~returned /\ instruction_result = "Continue"

---------------------------------------------------------------------------
(* The macros. *)

\* check_staticcall! with the test inverted.
check_staticcall_inverted ==
    /\ Running
    /\ instruction_result' =
           IF ~is_static THEN "StateChangeDuringStaticCall" ELSE instruction_result
    /\ last' = [op |-> "check_staticcall", args |-> <<>>]
    /\ ret' = <<>>
    /\ returned' = ~is_static
    /\ UNCHANGED <<stack, gas, shared_memory, feature_memory_limit, is_static, unchecked_oob>>

check_staticcall ==
    /\ Running
    /\ instruction_result' =
           IF is_static THEN "StateChangeDuringStaticCall" ELSE instruction_result
    /\ last' = [op |-> "check_staticcall", args |-> <<>>]
    /\ ret' = <<>>
    /\ returned' = is_static
    /\ UNCHANGED <<stack, gas, shared_memory, feature_memory_limit, is_static, unchecked_oob>>

\* gas! with a charge that is not atomic: a failed charge drains the meter.
gas_macro_drain(cost) ==
    LET r == record_cost(gas, cost)
    IN  /\ Running
        /\ gas' = IF ~r.ok THEN [gas EXCEPT !.remaining = 0] ELSE r.gas
        /\ instruction_result' = IF ~r.ok THEN "OutOfGas" ELSE instruction_result
        /\ last' = [op |-> "gas", args |-> <<cost>>]
        /\ ret' = <<>>
        /\ returned' = ~r.ok
        /\ UNCHANGED <<stack, shared_memory, feature_memory_limit, is_static, unchecked_oob>>

\* gas! setting the error signal without returning from the handler.
gas_macro_noreturn(cost) ==
    LET r == record_cost(gas, cost)
    IN  /\ ~returned
        /\ gas' = r.gas
        /\ instruction_result' = IF ~r.ok THEN "OutOfGas" ELSE instruction_result
        /\ last' = [op |-> "gas", args |-> <<cost>>]
        /\ ret' = <<>>
        /\ UNCHANGED <<stack, shared_memory, feature_memory_limit, is_static, returned, unchecked_oob>>

gas_macro(cost) ==
    LET r == record_cost(gas, cost)
    IN  /\ Running
        /\ gas' = r.gas
        /\ instruction_result' = IF ~r.ok THEN "OutOfGas" ELSE instruction_result
        /\ last' = [op |-> "gas", args |-> <<cost>>]
        /\ ret' = <<>>
        /\ returned' = ~r.ok
        /\ UNCHANGED <<stack, shared_memory, feature_memory_limit, is_static, unchecked_oob>>

refund(amount) ==
    /\ Running
    /\ gas.refunded + amount <= MaxRefund
    /\ gas' = record_refund(gas, amount)
    /\ last' = [op |-> "refund", args |-> <<amount>>]
    /\ ret' = <<>>
    /\ UNCHANGED <<stack, shared_memory, feature_memory_limit, is_static,
                   instruction_result, returned, unchecked_oob>>

\* resize_memory! reporting a failed memory charge the way gas! does.
resize_memory_oog(offset, len) ==
    LET size == saturating_add(offset, len)
        rounded_size == next_multiple_of_32(size)
        words_num == rounded_size \div WORD_SIZE
        r == record_memory(gas, memory_gas(words_num))
    IN  /\ Running
        /\ IF size > shared_memory.len
           THEN IF feature_memory_limit /\ limit_reached(shared_memory, size)
                THEN /\ instruction_result' = "MemoryLimitOOG"
                     /\ UNCHANGED <<gas, shared_memory>>
                ELSE IF ~r.ok
                     THEN /\ gas' = r.gas
                          /\ instruction_result' = "OutOfGas"
                          /\ UNCHANGED shared_memory
                     ELSE /\ gas' = r.gas
                          /\ shared_memory' = resize(shared_memory, rounded_size)
                          /\ UNCHANGED instruction_result
           ELSE UNCHANGED <<gas, shared_memory, instruction_result>>
        /\ last' = [op |-> "resize_memory", args |-> <<offset, len>>]
        /\ ret' = <<>>
        /\ returned' = (instruction_result' # "Continue")
        /\ UNCHANGED <<stack, feature_memory_limit, is_static,
                       unchecked_oob>>

\* resize_memory! without the `size > len` test: every call rounds, charges
\* and resizes.
resize_memory_noguard(offset, len) ==
    LET size == saturating_add(offset, len)
        rounded_size == next_multiple_of_32(size)
        words_num == rounded_size \div WORD_SIZE
        r == record_memory(gas, memory_gas(words_num))
    IN  /\ Running
        /\ IF feature_memory_limit /\ limit_reached(shared_memory, size)
           THEN /\ instruction_result' = "MemoryLimitOOG"
                /\ UNCHANGED <<gas, shared_memory>>
           ELSE IF ~r.ok
                THEN /\ gas' = r.gas
                     /\ instruction_result' = "MemoryLimitOOG"
                     /\ UNCHANGED shared_memory
                ELSE /\ gas' = r.gas
                     /\ shared_memory' = resize(shared_memory, rounded_size)
                     /\ UNCHANGED instruction_result
        /\ last' = [op |-> "resize_memory", args |-> <<offset, len>>]
        /\ ret' = <<>>
        /\ returned' = (instruction_result' # "Continue")
        /\ UNCHANGED <<stack, feature_memory_limit, is_static,
                       unchecked_oob>>

\* resize_memory! without the `size > len` test and charging the whole
\* memory cost of the request through record_cost, as gas! would.
resize_memory_recharge(offset, len) ==
    LET size == saturating_add(offset, len)
        rounded_size == next_multiple_of_32(size)
        words_num == rounded_size \div WORD_SIZE
        r == record_cost(gas, memory_gas(words_num))
    IN  /\ Running
        /\ IF feature_memory_limit /\ limit_reached(shared_memory, size)
           THEN /\ instruction_result' = "MemoryLimitOOG"
                /\ UNCHANGED <<gas, shared_memory>>
           ELSE IF ~r.ok
                THEN /\ gas' = r.gas
                     /\ instruction_result' = "MemoryLimitOOG"
                     /\ UNCHANGED shared_memory
                ELSE /\ gas' = r.gas
                     /\ shared_memory' =
                            IF rounded_size > shared_memory.len
                            THEN resize(shared_memory, rounded_size)
                            ELSE shared_memory
                     /\ UNCHANGED instruction_result
        /\ last' = [op |-> "resize_memory", args |-> <<offset, len>>]
        /\ ret' = <<>>
        /\ returned' = (instruction_result' # "Continue")
        /\ UNCHANGED <<stack, feature_memory_limit, is_static,
                       unchecked_oob>>

resize_memory(offset, len) ==
    LET size == saturating_add(offset, len)
        rounded_size == next_multiple_of_32(size)
        words_num == rounded_size \div WORD_SIZE
        r == record_memory(gas, memory_gas(words_num))
    IN  /\ Running
        /\ IF size > shared_memory.len
           THEN IF feature_memory_limit /\ limit_reached(shared_memory, size)
                THEN /\ instruction_result' = "MemoryLimitOOG"
                     /\ UNCHANGED <<gas, shared_memory>>
                ELSE IF ~r.ok
                     THEN /\ gas' = r.gas
                          /\ instruction_result' = "MemoryLimitOOG"
                          /\ UNCHANGED shared_memory
                     ELSE /\ gas' = r.gas
                          /\ shared_memory' = resize(shared_memory, rounded_size)
                          /\ UNCHANGED instruction_result
           ELSE UNCHANGED <<gas, shared_memory, instruction_result>>
        /\ last' = [op |-> "resize_memory", args |-> <<offset, len>>]
        /\ ret' = <<>>
        /\ returned' = (instruction_result' # "Continue")
        /\ UNCHANGED <<stack, feature_memory_limit, is_static,
                       unchecked_oob>>

\* pop_ret! with the length test off by one (`<=` for `<`).
pop_ret_offbyone(n) ==
    /\ Running
    /\ IF Len(stack) <= n
       THEN /\ instruction_result' = "StackUnderflow"
            /\ returned' = TRUE
            /\ ret' = <<>>
            /\ UNCHANGED <<stack, unchecked_oob>>
       ELSE /\ IF out_of_bounds(stack, n)
               THEN undefined_access
               ELSE LET p == CASE n = 1 -> pop_unsafe(stack)
                               [] n = 2 -> pop2_unsafe(stack)
                               [] n = 3 -> pop3_unsafe(stack)
                               [] n = 4 -> pop4_unsafe(stack)
                    IN  /\ stack' = p.stack
                        /\ ret' = p.vals
                        /\ UNCHANGED unchecked_oob
            /\ UNCHANGED <<instruction_result, returned>>
    /\ last' = [op |-> "pop", args |-> <<n>>]
    /\ UNCHANGED <<gas, shared_memory, feature_memory_limit, is_static>>

\* pop_ret!: the arm is selected by the number n of identifiers.
pop_ret(n) ==
    /\ Running
    /\ IF Len(stack) < n
       THEN /\ instruction_result' = "StackUnderflow"
            /\ returned' = TRUE
            /\ ret' = <<>>
            /\ UNCHANGED <<stack, unchecked_oob>>
       ELSE /\ IF out_of_bounds(stack, n)
               THEN undefined_access
               ELSE LET p == CASE n = 1 -> pop_unsafe(stack)
                               [] n = 2 -> pop2_unsafe(stack)
                               [] n = 3 -> pop3_unsafe(stack)
                               [] n = 4 -> pop4_unsafe(stack)
                    IN  /\ stack' = p.stack
                        /\ ret' = p.vals
                        /\ UNCHANGED unchecked_oob
            /\ UNCHANGED <<instruction_result, returned>>
    /\ last' = [op |-> "pop", args |-> <<n>>]
    /\ UNCHANGED <<gas, shared_memory, feature_memory_limit, is_static>>

\* pop!: pop_ret! returning ().
pop(n) == pop_ret(n)

\* The repetition $( ... )* of push! and push_b256!: one push per value, in
\* argument order, returning at the first Err.
RECURSIVE push_each(_, _, _)
push_each(s, xs, b256) ==
    IF xs = <<>>
    THEN [stack |-> s, result |-> "Continue"]
    ELSE LET r == IF b256 THEN push_b256_word(s, Head(xs)) ELSE push_word(s, Head(xs))
         IN  IF r.ok
             THEN push_each(r.stack, Tail(xs), b256)
             ELSE [stack |-> r.stack, result |-> r.err]

\* push! returning on Err without writing the error signal.
push_silent(xs) ==
    LET r == push_each(stack, xs, FALSE)
    IN  /\ Running
        /\ stack' = r.stack
        /\ UNCHANGED instruction_result
        /\ returned' = (r.result # "Continue")
        /\ last' = [op |-> "push", args |-> xs]
        /\ ret' = <<>>
        /\ UNCHANGED <<gas, shared_memory, feature_memory_limit, is_static, unchecked_oob>>

\* check! without the negation of the test.  SPEC is the type parameter of
\* the handler the macro is expanded in: the active version.
check_unnegated(SPEC, min) ==
    /\ Running
    /\ instruction_result' =
           IF enabled(SPEC, min) THEN "NotActivated" ELSE instruction_result
    /\ returned' = enabled(SPEC, min)
    /\ last' = [op |-> "check", args |-> <<SPEC, min>>]
    /\ ret' = <<>>
    /\ UNCHANGED <<stack, gas, shared_memory, feature_memory_limit, is_static, unchecked_oob>>

check(SPEC, min) ==
    /\ Running
    /\ instruction_result' =
           IF ~enabled(SPEC, min) THEN "NotActivated" ELSE instruction_result
    /\ returned' = ~enabled(SPEC, min)
    /\ last' = [op |-> "check", args |-> <<SPEC, min>>]
    /\ ret' = <<>>
    /\ UNCHANGED <<stack, gas, shared_memory, feature_memory_limit, is_static, unchecked_oob>>

\* gas_or_fail! taking an absent cost for a cost of zero.
gas_or_fail_free(cost) ==
    LET r == record_cost(gas, IF cost = <<>> THEN 0 ELSE cost[1])
    IN  /\ Running
        /\ gas' = r.gas
        /\ instruction_result' = IF ~r.ok THEN "OutOfGas" ELSE instruction_result
        /\ returned' = ~r.ok
        /\ last' = [op |-> "gas_or_fail", args |-> cost]
        /\ ret' = <<>>
        /\ UNCHANGED <<stack, shared_memory, feature_memory_limit, is_static, unchecked_oob>>

\* gas_or_fail!: cost is an Option, <<>> for None and <<c>> for Some(c).
gas_or_fail(cost) ==
    /\ Running
    /\ IF cost # <<>>
       THEN LET r == record_cost(gas, cost[1])
            IN  /\ gas' = r.gas
                /\ instruction_result' =
                       IF ~r.ok THEN "OutOfGas" ELSE instruction_result
                /\ returned' = ~r.ok
       ELSE /\ instruction_result' = "OutOfGas"
            /\ returned' = TRUE
            /\ UNCHANGED gas
    /\ last' = [op |-> "gas_or_fail", args |-> cost]
    /\ ret' = <<>>
    /\ UNCHANGED <<stack, shared_memory, feature_memory_limit, is_static, unchecked_oob>>

\* pop_address! testing for one word in the two-identifier arm.
pop_address_weak(n) ==
    /\ Running
    /\ IF Len(stack) < 1
       THEN /\ instruction_result' = "StackUnderflow"
            /\ returned' = TRUE
            /\ ret' = <<>>
            /\ UNCHANGED <<stack, unchecked_oob>>
       ELSE /\ IF out_of_bounds(stack, n)
               THEN undefined_access
               ELSE LET p1 == pop_unsafe(stack)
                        p2 == pop_unsafe(p1.stack)
                    IN  /\ stack' = IF n = 1 THEN p1.stack ELSE p2.stack
                        /\ ret' = IF n = 1
                                  THEN <<from_word(p1.vals[1])>>
                                  ELSE <<from_word(p1.vals[1]), from_word(p2.vals[1])>>
                        /\ UNCHANGED unchecked_oob
            /\ UNCHANGED <<instruction_result, returned>>
    /\ last' = [op |-> "pop_address", args |-> <<n>>]
    /\ UNCHANGED <<gas, shared_memory, feature_memory_limit, is_static>>

\* pop_address!: n identifiers, one pop_unsafe each after a single test.
pop_address(n) ==
    /\ Running
    /\ IF Len(stack) < n
       THEN /\ instruction_result' = "StackUnderflow"
            /\ returned' = TRUE
            /\ ret' = <<>>
            /\ UNCHANGED <<stack, unchecked_oob>>
       ELSE /\ IF out_of_bounds(stack, n)
               THEN undefined_access
               ELSE LET p1 == pop_unsafe(stack)
                        p2 == pop_unsafe(p1.stack)
                    IN  /\ stack' = IF n = 1 THEN p1.stack ELSE p2.stack
                        /\ ret' = IF n = 1
                                  THEN <<from_word(p1.vals[1])>>
                                  ELSE <<from_word(p1.vals[1]), from_word(p2.vals[1])>>
                        /\ UNCHANGED unchecked_oob
            /\ UNCHANGED <<instruction_result, returned>>
    /\ last' = [op |-> "pop_address", args |-> <<n>>]
    /\ UNCHANGED <<gas, shared_memory, feature_memory_limit, is_static>>

\* pop_top! removing every word it names, the top one included.
pop_top_all(n) ==
    /\ Running
    /\ IF Len(stack) < n
       THEN /\ instruction_result' = "StackUnderflow"
            /\ returned' = TRUE
            /\ ret' = <<>>
            /\ UNCHANGED <<stack, unchecked_oob>>
       ELSE /\ stack' = SubSeq(stack, 1, Len(stack) - n)
            /\ ret' = top_words(stack, n)
            /\ UNCHANGED <<instruction_result, returned, unchecked_oob>>
    /\ last' = [op |-> "pop_top", args |-> <<n>>]
    /\ UNCHANGED <<gas, shared_memory, feature_memory_limit, is_static>>

\* pop_top!: n identifiers; the last one is a reference to the new top.
pop_top(n) ==
    /\ Running
    /\ IF Len(stack) < n
       THEN /\ instruction_result' = "StackUnderflow"
            /\ returned' = TRUE
            /\ ret' = <<>>
            /\ UNCHANGED <<stack, unchecked_oob>>
       ELSE /\ IF out_of_bounds(stack, n)
               THEN undefined_access
               ELSE LET p == CASE n = 1 -> top_unsafe(stack)
                               [] n = 2 -> pop_top_unsafe(stack)
                               [] n = 3 -> pop2_top_unsafe(stack)
                    IN  /\ stack' = p.stack
                        /\ ret' = p.vals
                        /\ UNCHANGED unchecked_oob
            /\ UNCHANGED <<instruction_result, returned>>
    /\ last' = [op |-> "pop_top", args |-> <<n>>]
    /\ UNCHANGED <<gas, shared_memory, feature_memory_limit, is_static>>

\* push! testing the capacity once for all its values.
push_atomic(xs) ==
    /\ Running
    /\ IF Len(stack) + Len(xs) > STACK_LIMIT
       THEN /\ instruction_result' = "StackOverflow"
            /\ returned' = TRUE
            /\ UNCHANGED stack
       ELSE /\ stack' = stack \o xs
            /\ UNCHANGED <<instruction_result, returned>>
    /\ last' = [op |-> "push", args |-> xs]
    /\ ret' = <<>>
    /\ UNCHANGED <<gas, shared_memory, feature_memory_limit, is_static, unchecked_oob>>

\* push! through a push that does not test the capacity.
push_unchecked(xs) ==
    /\ Running
    /\ stack' = stack \o xs
    /\ last' = [op |-> "push", args |-> xs]
    /\ ret' = <<>>
    /\ UNCHANGED <<gas, shared_memory, feature_memory_limit, is_static, unchecked_oob, instruction_result, returned>>

push(xs) ==
    LET r == push_each(stack, xs, FALSE)
    IN  /\ Running
        /\ stack' = r.stack
        /\ instruction_result' =
               IF r.result # "Continue" THEN r.result ELSE instruction_result
        /\ last' = [op |-> "push", args |-> xs]
        /\ returned' = (r.result # "Continue")
        /\ ret' = <<>>
        /\ UNCHANGED <<gas, shared_memory, feature_memory_limit, is_static, unchecked_oob>>

push_b256(xs) ==
    LET r == push_each(stack, xs, TRUE)
    IN  /\ Running
        /\ stack' = r.stack
        /\ instruction_result' =
               IF r.result # "Continue" THEN r.result ELSE instruction_result
        /\ last' = [op |-> "push_b256", args |-> xs]
        /\ returned' = (r.result # "Continue")
        /\ ret' = <<>>
        /\ UNCHANGED <<gas, shared_memory, feature_memory_limit, is_static, unchecked_oob>>

---------------------------------------------------------------------------
(* The narrowing macros.  A wide value is given by its four limbs. *)

\* as_u64_saturated! looking at the second limb only.
as_u64_saturated_x1(v) ==
    LET x == as_limbs(v)
    IN  IF x[2] = 0 THEN x[1] ELSE U64_MAX

as_u64_saturated(v) ==
    LET x == as_limbs(v)
    IN  IF x[2] = 0 /\ x[3] = 0 /\ x[4] = 0 THEN x[1] ELSE U64_MAX

as_usize_saturated(v) ==
    LET t == usize_try_from(as_u64_saturated(v))
    IN  IF t.ok THEN t.val ELSE USIZE_MAX

\* as_usize_or_fail_ret! converting the low limb with `as usize`, which
\* truncates, in place of usize::try_from.
as_usize_or_fail_ret_truncating(v, reason) ==
    LET x == as_limbs(v)
    IN  /\ Running
        /\ IF x[2] # 0 \/ x[3] # 0 \/ x[4] # 0
           THEN /\ instruction_result' = reason
                /\ returned' = TRUE
                /\ ret' = <<>>
           ELSE /\ ret' = <<x[1] % (USIZE_MAX + 1)>>
                /\ UNCHANGED <<instruction_result, returned>>
        /\ last' = [op |-> "as_usize_or_fail", args |-> v]
        /\ UNCHANGED <<stack, gas, shared_memory, feature_memory_limit, is_static, unchecked_oob>>

as_usize_or_fail_ret(v, reason) ==
    LET x == as_limbs(v)
    IN  /\ Running
        /\ IF x[2] # 0 \/ x[3] # 0 \/ x[4] # 0
           THEN /\ instruction_result' = reason
                /\ returned' = TRUE
                /\ ret' = <<>>
           ELSE LET t == usize_try_from(x[1])
                IN  IF ~t.ok
                    THEN /\ instruction_result' = reason
                         /\ returned' = TRUE
                         /\ ret' = <<>>
                    ELSE /\ ret' = <<t.val>>
                         /\ UNCHANGED <<instruction_result, returned>>
        /\ last' = [op |-> "as_usize_or_fail", args |-> v]
        /\ UNCHANGED <<stack, gas, shared_memory, feature_memory_limit, is_static, unchecked_oob>>

\* as_usize_or_fail! with the default reason.
as_usize_or_fail(v) == as_usize_or_fail_ret(v, "InvalidOperandOOG")

\* A handler evaluating one of the saturating macros: an expression, no
\* state of the interpreter changes; the value is bound to an identifier.
narrow(name, v, result) ==
    /\ Running
    /\ last' = [op |-> name, args |-> v]
    /\ ret' = <<result>>
    /\ UNCHANGED <<stack, gas, shared_memory, feature_memory_limit, is_static, unchecked_oob, instruction_result, returned>>

---------------------------------------------------------------------------
(* The frame. *)

Init ==
    /\ stack = <<>>
    /\ \E limit \in GasLimits :
           gas = [remaining |-> limit, memory |-> 0, refunded |-> 0]
    /\ \E cfg \in {<<FALSE, U64_MAX>>} \cup {<<TRUE, l>> : l \in MemoryLimits} :
           /\ feature_memory_limit = cfg[1]
           /\ shared_memory = [len |-> 0, memory_limit |-> cfg[2]]
    /\ is_static \in BOOLEAN
    /\ instruction_result = "Continue"
    /\ last = [op |-> "new", args |-> <<>>]
    /\ ret = <<>>
    /\ repeat = FALSE
    /\ returned = FALSE
    /\ unchecked_oob = FALSE

\* Bookkeeping of `repeat`, part of every step.
Repeated == repeat' = (last' = last)

CheckStaticcall == check_staticcall /\ Repeated

Gas == (\E cost \in Costs : gas_macro(cost)) /\ Repeated

Refund == (\E amount \in Refunds : refund(amount)) /\ Repeated

ResizeMemory ==
    (\E offset \in Offsets, len \in Lens : resize_memory(offset, len)) /\ Repeated

Pop == (\E n \in 1..4 : pop(n)) /\ Repeated

PushArgs == {<<x>> : x \in PushWords} \cup {<<x, y>> : x, y \in PushWords}

Push == (\E xs \in PushArgs : push(xs)) /\ Repeated

PushB256 == (\E xs \in PushArgs : push_b256(xs)) /\ Repeated

Check == (\E SPEC \in SpecIds, min \in Capabilities : check(SPEC, min)) /\ Repeated

GasOrFail == (\E cost \in OptionalCosts : gas_or_fail(cost)) /\ Repeated

PopTop == (\E n \in 1..3 : pop_top(n)) /\ Repeated

PopAddress == (\E n \in 1..2 : pop_address(n)) /\ Repeated

Next ==
    \/ CheckStaticcall
    \/ Gas
    \/ Refund
    \/ ResizeMemory
    \/ Pop
    \/ Push
    \/ PushB256
    \/ Check
    \/ GasOrFail
    \/ PopTop
    \/ PopAddress

Spec == Init /\ [][Next]_vars

(* The frame of a handler that narrows wide operands. *)

Wide == [1..4 -> LimbValues]

AsU64Saturated ==
    (\E v \in Wide : narrow("as_u64_saturated", v, as_u64_saturated(v))) /\ Repeated

AsUsizeSaturated ==
    (\E v \in Wide : narrow("as_usize_saturated", v, as_usize_saturated(v)))
        /\ Repeated

AsUsizeOrFail == (\E v \in Wide : as_usize_or_fail(v)) /\ Repeated

NextNarrow ==
    \/ AsU64Saturated
    \/ AsUsizeSaturated
    \/ AsUsizeOrFail

SpecNarrow == Init /\ [][NextNarrow]_vars

---------------------------------------------------------------------------
(* Vocabulary of the claims. *)

\* The size a resize_memory! step asks for: offset + len, saturating.
Requested(l) == saturating_add(l.args[1], l.args[2])

\* The smallest multiple of 32 that is >= n, as a number (no native width).
RoundUp32(n) == CHOOSE m \in n..(n + WORD_SIZE - 1) : m % WORD_SIZE = 0

IsResize(l) == l.op = "resize_memory"

---------------------------------------------------------------------------
(* The claims. *)

\* C1: a gas!(c) step with c > remaining sets the error signal to OutOfGas
\* and leaves remaining as it was; with c <= remaining it leaves the error
\* signal alone and makes remaining exactly remaining - c; so remaining is
\* never negative.
C1_ChargeIsAtomic ==
    [][last'.op = "gas" =>
          LET R == remaining(gas)
              c == last'.args[1]
          IN  /\ c > R => /\ instruction_result' = "OutOfGas"
                          /\ remaining(gas') = R
              /\ c <= R => /\ instruction_result' = instruction_result
                           /\ remaining(gas') = R - c
              /\ remaining(gas') >= 0]_vars

\* C1 witness: gas!(10) has just failed on a meter with 5 gas left.
C1_Witness ==
    /\ last = [op |-> "gas", args |-> <<10>>]
    /\ instruction_result = "OutOfGas"
    /\ remaining(gas) = 5

\* C2: a resize_memory! step that grows memory successfully from length M
\* (a multiple of 32) for a request S > M leaves the length at the smallest
\* multiple of 32 >= S and charges cost(words(new length)) - cost(words(M)).
C2_GrowthIsExact ==
    [][(/\ IsResize(last')
        /\ shared_memory.len % WORD_SIZE = 0
        /\ Requested(last') > shared_memory.len
        /\ instruction_result' = "Continue") =>
          /\ shared_memory'.len = RoundUp32(Requested(last'))
          /\ remaining(gas) - remaining(gas') =
                 memory_gas(shared_memory'.len \div WORD_SIZE)
                   - memory_gas(shared_memory.len \div WORD_SIZE)]_vars

\* C3: with a maximum memory length configured, a resize_memory! step that
\* must grow fails with MemoryLimitOOG whenever the request rounded up to a
\* multiple of 32 exceeds the maximum, and then changes neither the memory
\* length nor the gas.
C3_LimitOnRoundedSize ==
    [][(/\ IsResize(last')
        /\ feature_memory_limit
        /\ Requested(last') > shared_memory.len
        /\ RoundUp32(Requested(last')) > shared_memory.memory_limit) =>
          /\ instruction_result' = "MemoryLimitOOG"
          /\ shared_memory'.len = shared_memory.len
          /\ gas' = gas]_vars

\* C4: a resize_memory! step that must grow while the meter cannot cover
\* the incremental memory cost sets the error signal to MemoryLimitOOG (not
\* OutOfGas) and changes neither the memory length nor the remaining gas.
C4_MemoryGasFailure ==
    [][(/\ IsResize(last')
        /\ Requested(last') > shared_memory.len
        /\ memory_gas(next_multiple_of_32(Requested(last')) \div WORD_SIZE)
              - memory_gas(shared_memory.len \div WORD_SIZE) > remaining(gas)) =>
          /\ instruction_result' = "MemoryLimitOOG"
          /\ shared_memory'.len = shared_memory.len
          /\ remaining(gas') = remaining(gas)]_vars

\* C4 witness: resize_memory!(33, 32) has just failed for lack of gas, with
\* no memory limit configured: 96 bytes cost 13, the meter holds less.
C4_Witness ==
    /\ last = [op |-> "resize_memory", args |-> <<33, 32>>]
    /\ ~feature_memory_limit
    /\ instruction_result = "MemoryLimitOOG"
    /\ shared_memory.len = 32
    /\ remaining(gas) = 2

\* C5: a resize_memory! step with offset + len <= the current memory length
\* charges no gas, keeps the memory length and does not write the error
\* signal.
C5_NoGrowthIsNoOp ==
    [][(IsResize(last') /\ Requested(last') <= shared_memory.len) =>
          /\ gas' = gas
          /\ shared_memory' = shared_memory
          /\ instruction_result' = instruction_result]_vars

\* C5 witness: resize_memory!(0, 32) has just run on 64 bytes of memory.
C5_Witness ==
    /\ last = [op |-> "resize_memory", args |-> <<0, 32>>]
    /\ shared_memory.len = 64
    /\ instruction_result = "Continue"

\* C6: in every reachable state the memory length is a multiple of 32, also
\* after requests whose offset + len saturates at the native maximum.
C6_LengthIsWordAligned == shared_memory.len % WORD_SIZE = 0

\* C7: no step, successful or failing, decreases the memory length.
C7_LengthNeverShrinks == [][shared_memory'.len >= shared_memory.len]_vars

\* C7 witness: memory has grown and a later, smaller request has run.
C7_Witness ==
    /\ IsResize(last)
    /\ Requested(last) = 1
    /\ shared_memory.len = 96

\* C8: a resize_memory! step that repeats the step before it, with the same
\* (offset, len), charges no gas and keeps the memory length.
C8_ResizeIsIdempotent ==
    [][(IsResize(last') /\ repeat') =>
          /\ gas' = gas
          /\ shared_memory'.len = shared_memory.len]_vars

\* C8 witness: resize_memory!(33, 0) has run twice in a row on a meter that
\* started with 14: memory is 64 bytes and only the 8 of the first call
\* were charged.
C8_Witness ==
    /\ last = [op |-> "resize_memory", args |-> <<33, 0>>]
    /\ repeat
    /\ shared_memory.len = 64
    /\ gas = [remaining |-> 6, memory |-> 8, refunded |-> 0]

\* C9: a pop!/pop_ret! step of k words (k in 1..4) on a stack of length L
\* sets the error signal to StackUnderflow and leaves the stack unchanged
\* when k > L; when k <= L it removes exactly the top k words, binds them
\* most-recently-pushed first and leaves length L - k.
C9_CheckedPop ==
    [][last'.op = "pop" =>
          LET k == last'.args[1]
              L == Len(stack)
          IN  /\ k \in 1..4
              /\ k > L => /\ instruction_result' = "StackUnderflow"
                          /\ stack' = stack
              /\ k <= L => /\ Len(stack') = L - k
                           /\ stack' = SubSeq(stack, 1, L - k)
                           /\ ret' = [i \in 1..k |-> stack[L + 1 - i]]
                           /\ instruction_result' = instruction_result]_vars

\* C9 witness: pop! of four words has emptied a stack pushed as 1, 1, 2, 2.
C9_Witness ==
    /\ last = [op |-> "pop", args |-> <<4>>]
    /\ ret = <<2, 2, 1, 1>>
    /\ stack = <<>>
    /\ instruction_result = "Continue"

\* C10: a push!/push_b256! step of one word on a stack whose length equals
\* the capacity sets the error signal to StackOverflow and leaves the stack
\* unchanged; on a shorter stack it appends the word and leaves the error
\* signal unchanged.
C10_SinglePush ==
    [][(last'.op \in {"push", "push_b256"} /\ Len(last'.args) = 1) =>
          IF Len(stack) = STACK_LIMIT
          THEN /\ instruction_result' = "StackOverflow"
               /\ stack' = stack
          ELSE /\ stack' = Append(stack, last'.args[1])
               /\ instruction_result' = instruction_result]_vars

\* C10 witness: a push! of one word has just failed on a full stack.
C10_Witness ==
    /\ last.op = "push"
    /\ Len(last.args) = 1
    /\ Len(stack) = STACK_LIMIT
    /\ instruction_result = "StackOverflow"

\* The high limbs of a wide value are all zero.
HighLimbsZero(v) == v[2] = 0 /\ v[3] = 0 /\ v[4] = 0

\* s is an initial part of t.
IsPrefix(s, t) == Len(s) <= Len(t) /\ SubSeq(t, 1, Len(s)) = s

\* C11: in every reachable state, after any sequence of push, pop, pop_top
\* and pop_address steps, successful or failing, the stack length is between
\* 0 and the capacity.
C11_StackLengthInBounds == Len(stack) >= 0 /\ Len(stack) <= STACK_LIMIT

\* C11 witness: a push_b256! of two words has just overflowed a stack that
\* is now full.
C11_Witness ==
    /\ last.op = "push_b256"
    /\ Len(last.args) = 2
    /\ Len(stack) = STACK_LIMIT
    /\ instruction_result = "StackOverflow"

\* C12: a check_staticcall! step on a static frame sets the error signal to
\* StateChangeDuringStaticCall and keeps stack length, remaining gas and
\* memory length; on a non-static frame it changes nothing, the error signal
\* included.
C12_StaticGuard ==
    [][last'.op = "check_staticcall" =>
          IF is_static
          THEN /\ instruction_result' = "StateChangeDuringStaticCall"
               /\ Len(stack') = Len(stack)
               /\ remaining(gas') = remaining(gas)
               /\ shared_memory'.len = shared_memory.len
          ELSE UNCHANGED <<stack, gas, shared_memory, instruction_result>>]_vars

\* C12 witness: check_staticcall! has just failed on a static frame that
\* holds a word and 32 bytes of memory.
C12_Witness ==
    /\ last.op = "check_staticcall"
    /\ is_static
    /\ instruction_result = "StateChangeDuringStaticCall"
    /\ Len(stack) = 1
    /\ shared_memory.len = 32

\* C13: a check!(capability) step sets the error signal to NotActivated
\* exactly when the active version is before the capability, and then keeps
\* stack, gas and memory; when the capability is enabled it changes nothing.
C13_FeatureGate ==
    [][last'.op = "check" =>
          LET active == last'.args[1]
              capability == last'.args[2]
          IN  /\ (instruction_result' = "NotActivated") <=> (active < capability)
              /\ UNCHANGED <<stack, gas, shared_memory>>
              /\ ~(active < capability) =>
                     instruction_result' = instruction_result]_vars

\* C13 witness: check! of capability 2 has just failed under version 1, on
\* a frame that holds a word.
C13_Witness ==
    /\ last = [op |-> "check", args |-> <<1, 2>>]
    /\ instruction_result = "NotActivated"
    /\ Len(stack) = 1

\* C14 as stated: a pop_top! step with n identifiers (1, 2 or 3) on a stack
\* of at least n words removes nothing: the stack length stays the same.
C14_TopIsNotRemoved ==
    [][(last'.op = "pop_top" /\ Len(stack) >= last'.args[1]) =>
          Len(stack') = Len(stack)]_vars

\* C14 amended: a pop_top! step with n identifiers on a stack of at least n
\* words removes the n - 1 words above the new top and binds the top n
\* words, the last identifier being the word left on top: the length drops
\* by n - 1 and stays the same only for n = 1.
C14_PopTopKeepsOnlyTheTop ==
    [][(last'.op = "pop_top" /\ Len(stack) >= last'.args[1]) =>
          LET n == last'.args[1]
              L == Len(stack)
          IN  /\ n \in 1..3
              /\ stack' = SubSeq(stack, 1, L - (n - 1))
              /\ ret' = [i \in 1..n |-> stack[L + 1 - i]]
              /\ ret'[n] = stack'[Len(stack')]
              /\ instruction_result' = instruction_result]_vars

\* C14 witness: pop_top! with three identifiers has run on the stack
\* 1, 2, 2 and left the single word 1.
C14_Witness ==
    /\ last = [op |-> "pop_top", args |-> <<3>>]
    /\ ret = <<2, 2, 1>>
    /\ stack = <<1>>
    /\ instruction_result = "Continue"

\* C15 as stated: as_u64_saturated! and as_usize_saturated! give exactly
\* the low limb when the three higher limbs are zero, and the native
\* maximum when a higher limb is not zero.
C15_SaturatingNarrowing ==
    /\ last.op = "as_u64_saturated" =>
           ret = <<IF HighLimbsZero(last.args) THEN last.args[1] ELSE U64_MAX>>
    /\ last.op = "as_usize_saturated" =>
           ret = <<IF HighLimbsZero(last.args) THEN last.args[1] ELSE USIZE_MAX>>

\* C15 amended: as_u64_saturated! is as stated; as_usize_saturated! gives
\* exactly the low limb when the three higher limbs are zero and the low
\* limb fits in usize, and usize::MAX otherwise (also for a low limb above
\* usize::MAX on a target whose usize is narrower than u64).
C15_SaturatingNarrowingToWidth ==
    /\ last.op = "as_u64_saturated" =>
           ret = <<IF HighLimbsZero(last.args) THEN last.args[1] ELSE U64_MAX>>
    /\ last.op = "as_usize_saturated" =>
           ret = <<IF HighLimbsZero(last.args) /\ last.args[1] <= USIZE_MAX
                   THEN last.args[1]
                   ELSE USIZE_MAX>>

\* C15 witness: as_usize_saturated! has narrowed a value whose higher limbs
\* are zero and whose low limb is usize::MAX + 1.
C15_Witness ==
    /\ last = [op |-> "as_usize_saturated",
               args |-> [i \in 1..4 |-> IF i = 1 THEN USIZE_MAX + 1 ELSE 0]]
    /\ ret = <<USIZE_MAX>>

\* C16: an as_usize_or_fail! step with the default reason binds the exact
\* value and does not write the error signal when the value fits in usize;
\* otherwise it sets the error signal to InvalidOperandOOG and binds
\* nothing, so no truncated or saturated index exists.
C16_StrictNarrowing ==
    last.op = "as_usize_or_fail" =>
        IF HighLimbsZero(last.args) /\ last.args[1] <= USIZE_MAX
        THEN ret = <<last.args[1]>> /\ instruction_result = "Continue"
        ELSE ret = <<>> /\ instruction_result = "InvalidOperandOOG"

\* C16 witness: as_usize_or_fail! has just failed on a value whose higher
\* limbs are zero and whose low limb is usize::MAX + 1.
C16_Witness ==
    /\ last = [op |-> "as_usize_or_fail",
               args |-> [i \in 1..4 |-> IF i = 1 THEN USIZE_MAX + 1 ELSE 0]]
    /\ instruction_result = "InvalidOperandOOG"
    /\ ret = <<>>

\* C17: the first macro that fails sets the error signal and ends the
\* handler: once the error signal is set no step changes stack, gas, memory
\* or the signal; and the failing step keeps what the earlier steps did
\* (gas charged, memory grown, words pushed or popped are not rolled back).
C17_FailureIsTerminal ==
    [][/\ instruction_result # "Continue" =>
              UNCHANGED <<stack, gas, shared_memory, instruction_result>>
       /\ (instruction_result = "Continue" /\ instruction_result' # "Continue") =>
              /\ gas' = gas
              /\ shared_memory' = shared_memory
              /\ IsPrefix(stack, stack')]_vars

\* C17 witness: a pop! of two words has just failed after earlier steps
\* pushed one word and grew memory to 32 bytes for 3 gas; all of it is still
\* there.
C17_Witness ==
    /\ last = [op |-> "pop", args |-> <<2>>]
    /\ instruction_result = "StackUnderflow"
    /\ stack = <<1>>
    /\ shared_memory.len = 32
    /\ gas.memory = 3
    /\ remaining(gas) = 2

\* C18: a gas_or_fail! step with an absent cost sets the error signal to
\* OutOfGas and keeps the gas; with a cost c it does what gas!(c) does: with
\* c > remaining OutOfGas and the gas kept, else remaining - c and the error
\* signal kept.
C18_OptionalCost ==
    [][last'.op = "gas_or_fail" =>
          IF last'.args = <<>>
          THEN /\ instruction_result' = "OutOfGas"
               /\ gas' = gas
          ELSE LET R == remaining(gas)
                   c == last'.args[1]
               IN  /\ c > R => /\ instruction_result' = "OutOfGas"
                               /\ gas' = gas
                   /\ c <= R => /\ instruction_result' = instruction_result
                                /\ remaining(gas') = R - c]_vars

\* C18 witness: gas_or_fail! with an absent cost has just failed on a meter
\* that still holds 11 gas.
C18_Witness ==
    /\ last = [op |-> "gas_or_fail", args |-> <<>>]
    /\ instruction_result = "OutOfGas"
    /\ remaining(gas) = 11

\* C19: no unchecked stack access of pop_ret!, pop_top! or pop_address!
\* ever runs out of bounds: the length test of the macro covers every word
\* its unchecked accesses touch.
C19_UncheckedAccessInBounds == unchecked_oob = FALSE

\* C19 witness: pop_address! with two identifiers has run on a stack of
\* exactly two words, the least its test lets through.
C19_Witness ==
    /\ last = [op |-> "pop_address", args |-> <<2>>]
    /\ Len(ret) = 2
    /\ stack = <<>>
    /\ instruction_result = "Continue"
    /\ ~unchecked_oob

\* C20: a push!/push_b256! step with more values than the stack has free
\* slots f pushes exactly the first f values, in argument order, leaves them
\* on the stack and sets the error signal to StackOverflow; with enough room
\* all values are pushed in argument order.
C20_PushIsNotAtomic ==
    [][last'.op \in {"push", "push_b256"} =>
          LET f == STACK_LIMIT - Len(stack)
              xs == last'.args
          IN  IF Len(xs) > f
              THEN /\ stack' = stack \o SubSeq(xs, 1, f)
                   /\ instruction_result' = "StackOverflow"
              ELSE /\ stack' = stack \o xs
                   /\ instruction_result' = instruction_result]_vars

\* C20 witness: push!(1, 2) has just overflowed a stack that had one free
\* slot: the 1 is on top of the full stack, the 2 was never pushed.
C20_Witness ==
    /\ last = [op |-> "push", args |-> <<1, 2>>]
    /\ instruction_result = "StackOverflow"
    /\ Len(stack) = STACK_LIMIT
    /\ stack[STACK_LIMIT] = 1
    /\ \A i \in 1..(STACK_LIMIT - 1) : stack[i] = 2

====
